---- MODULE Spec2Model ----
(***************************************************************************)
(* Case linking and the tiered Phase-6 sample selection of mail-review:    *)
(*   src/src/data_ingestion.py  Interaction                                *)
(*   src/src/case_linking.py    Case, CaseLinker.link_cases                *)
(*   src/src/sampler.py         Sampler (gate, period split, tiers)        *)
(*   src/main.py                the weekly pipeline around them            *)
(*                                                                         *)
(* Values.  A date is its day ordinal (days since Dec 31 of the year       *)
(* before Year), a datetime is ordinal * TicksPerDay + tick.  A text is a  *)
(* sequence of segments [n, cue]: n characters that are either filler      *)
(* (cue = "-") or one domain cue the gate's regular expressions look for.  *)
(* Python's None is a sentinel of the field's own type (NoDate, NoneBody,  *)
(* NoneCase, the string "None").                                           *)
(***************************************************************************)
EXTENDS Integers, Sequences, FiniteSets, TLC

(***************************************************************************)
(* Calendar: datetime.date, strftime("%Y%m%d"), strptime(.., "%Y%m%d"),    *)
(* timedelta(days=7).                                                      *)
(***************************************************************************)
Year == 2025

DaysInMonth == <<31, 28, 31, 30, 31, 30, 31, 31, 30, 31, 30, 31>>

RECURSIVE DaysBeforeMonth(_)
DaysBeforeMonth(m) == IF m <= 1 THEN 0 ELSE DaysBeforeMonth(m - 1) + DaysInMonth[m - 1]

\* date(Year, m, d) as an ordinal
Date(m, d) == DaysBeforeMonth(m) + d

MonthOf(ord) == CHOOSE m \in 1..12 : DaysBeforeMonth(m) < ord /\ ord <= DaysBeforeMonth(m) + DaysInMonth[m]

DayOf(ord) == ord - DaysBeforeMonth(MonthOf(ord))

\* date.strftime('%Y%m%d'), read as a numeral
Strftime(ord) == Year * 10000 + MonthOf(ord) * 100 + DayOf(ord)

NoDate == 0 - 1

\* datetime.strptime(s, "%Y%m%d").date(); NoDate stands for the ValueError
Strptime(s) ==
    LET y == s \div 10000
        m == (s \div 100) % 100
        d == s % 100
    IN  IF y = Year /\ m \in 1..12 /\ d >= 1 /\ d <= DaysInMonth[m]
        THEN Date(m, d)
        ELSE NoDate

\* a window of 10 days where the code widens by 7
WidenDaysTen == 7 + 3

\* timedelta(days=7) of the extended range
WidenDays == 7

TicksPerDay == 2

\* datetime.date()
TimestampDate(ts) == ts \div TicksPerDay

At(ord, tick) == ord * TicksPerDay + tick

(***************************************************************************)
(* Text.                                                                   *)
(***************************************************************************)
Filler(n) == <<[n |-> n, cue |-> "-"]>>

Cue(c) ==
    <<[n |-> CASE c = "kakunin" -> 2    \* 確認
              [] c = "kigen" -> 2      \* 期限
              [] c = "nittei" -> 2     \* 日程
              [] c = "nakaguro" -> 1   \* ・
              [] c = "haku" -> 1       \* 泊
              [] c = "onegai" -> 3     \* お願い
              [] OTHER -> 1,
       cue |-> c]>>

NoneBody == <<[n |-> 0, cue |-> "None"]>>

\* body or ""
BodyOrEmpty(b) == IF b = NoneBody THEN <<>> ELSE b

RECURSIVE StrLen(_)
StrLen(t) == IF t = <<>> THEN 0 ELSE Head(t).n + StrLen(Tail(t))

\* re.search(pattern, content), pattern given by the cues it matches
Search(cues, t) == \E k \in 1..Len(t) : t[k].cue \in cues

\* not interaction.body
BodyFalsy(b) == b = NoneBody \/ StrLen(b) = 0

(***************************************************************************)
(* Interaction (data_ingestion.py) and Case (case_linking.py).             *)
(***************************************************************************)
Interaction(id, type, timestamp, agent, body, file_path) ==
    [id |-> id, type |-> type, timestamp |-> timestamp, agent |-> agent,
     body |-> body, file_path |-> file_path]

\* f"CASE_{agent}_{date.strftime('%Y%m%d')}": head is the text before the
\* last "_", tail the numeral after it (what rsplit("_", 1) separates)
CaseId(agent, ymd) == [head |-> <<"CASE", agent>>, tail |-> ymd]

\* Case(case_id)
NewCase(case_id) == [case_id |-> case_id, interactions |-> <<>>, agent |-> "Unknown"]

\* an add_interaction where every known agent overrides the one before
AddInteractionLastWins(case, interaction) ==
    [case EXCEPT !.interactions = Append(@, interaction),
                 !.agent = IF interaction.agent # "Unknown" THEN interaction.agent ELSE @]

\* Case.add_interaction
AddInteraction(case, interaction) ==
    [case EXCEPT !.interactions = Append(@, interaction),
                 !.agent = IF @ = "Unknown" /\ interaction.agent # "Unknown"
                           THEN interaction.agent ELSE @]

RECURSIVE AddAll(_, _)
AddAll(case, is) ==
    IF is = <<>> THEN case ELSE AddAll(AddInteraction(case, Head(is)), Tail(is))

Range(s) == {s[k] : k \in 1..Len(s)}

RECURSIVE SetMax(_)
SetMax(S) == IF Cardinality(S) = 1 THEN CHOOSE x \in S : TRUE
             ELSE LET x == CHOOSE y \in S : TRUE
                      r == SetMax(S \ {x})
                  IN  IF x > r THEN x ELSE r

HasPhone(case) == \E k \in 1..Len(case.interactions) : case.interactions[k].type = "PHONE"

(***************************************************************************)
(* CaseLinker (case_linking.py).                                           *)
(***************************************************************************)
RECURSIVE EveryOccurrence(_, _)
\* the keys without the dict: one entry for each occurrence
EveryOccurrence(keys, seen) ==
    IF keys = <<>> THEN <<>>
    ELSE <<Head(keys)>> \o EveryOccurrence(Tail(keys), seen)

RECURSIVE FirstSeen(_, _)
\* the keys of a defaultdict in insertion order: each key where it first occurs
FirstSeen(keys, seen) ==
    IF keys = <<>> THEN <<>>
    ELSE IF Head(keys) \in seen THEN FirstSeen(Tail(keys), seen)
    ELSE <<Head(keys)>> \o FirstSeen(Tail(keys), seen \cup {Head(keys)})

RECURSIVE InsertByTimestamp(_, _)
InsertByTimestamp(sorted, x) ==
    IF sorted = <<>> THEN <<x>>
    ELSE IF Head(sorted).timestamp <= x.timestamp
         THEN <<Head(sorted)>> \o InsertByTimestamp(Tail(sorted), x)
         ELSE <<x>> \o sorted

\* no sort: the interactions in the order they were loaded
SortByLoadOrder(is) == is

RECURSIVE SortByTimestamp(_)
\* list.sort(key=lambda x: x.timestamp): stable
SortByTimestamp(is) ==
    IF is = <<>> THEN <<>>
    ELSE InsertByTimestamp(SortByTimestamp(SubSeq(is, 1, Len(is) - 1)), is[Len(is)])

\* one case for an agent, named by the day of its first interaction, whatever
\* the days of the others
AgentCase(agent, agent_interactions) ==
    LET sorted == SortByTimestamp(agent_interactions)
    IN  <<AddAll(NewCase(CaseId(agent, Strftime(TimestampDate(sorted[1].timestamp)))), sorted)>>

\* the cases of one agent: lines 43-68
DailyCases(agent, agent_interactions) ==
    LET sorted == SortByTimestamp(agent_interactions)
        dates == FirstSeen([k \in 1..Len(sorted) |-> TimestampDate(sorted[k].timestamp)], {})
        DayCase(date) ==
            LET OnDay(i) == TimestampDate(i.timestamp) = date
            IN  AddAll(NewCase(CaseId(agent, Strftime(date))), SelectSeq(sorted, OnDay))
    IN  [k \in 1..Len(dates) |-> DayCase(dates[k])]

RECURSIVE Flatten(_)
Flatten(ls) == IF ls = <<>> THEN <<>> ELSE Head(ls) \o Flatten(Tail(ls))

RECURSIVE RunsByKey(_)
\* consecutive interactions of one agent and day, cut wherever the key changes
RunsByKey(is) ==
    IF is = <<>> THEN <<>>
    ELSE LET rest == RunsByKey(Tail(is))
             Same(i, j) == i.agent = j.agent /\ TimestampDate(i.timestamp) = TimestampDate(j.timestamp)
         IN  IF rest # <<>> /\ Same(Head(is), Head(rest)[1])
             THEN <<<<Head(is)>> \o Head(rest)>> \o Tail(rest)
             ELSE <<<<Head(is)>>>> \o rest

\* a linker that groups neighbours of the input list, without the two dicts
LinkCasesByRuns(interactions) ==
    LET runs == RunsByKey(interactions)
    IN  [k \in 1..Len(runs) |->
            AddAll(NewCase(CaseId(runs[k][1].agent, Strftime(TimestampDate(runs[k][1].timestamp)))),
                   SortByTimestamp(runs[k]))]

\* CaseLinker.link_cases
LinkCases(interactions) ==
    LET agents == FirstSeen([k \in 1..Len(interactions) |-> interactions[k].agent], {})
        By(agent) ==
            LET Mine(i) == i.agent = agent
            IN  SelectSeq(interactions, Mine)
    IN  Flatten([k \in 1..Len(agents) |-> DailyCases(agents[k], By(agents[k]))])

(***************************************************************************)
(* Sampler (sampler.py).                                                   *)
(***************************************************************************)
STRICT_GATES ==
    [EMAIL |-> [min_chars |-> 350, structure_points |-> 2],
     CALL  |-> [min_transcript |-> 600, structure_points |-> 1, min_duration |-> 120]]

\* loose thresholds under which a call is rescued only by a cue
LooseGatesCallOnePoint ==
    [EMAIL |-> [min_chars |-> 150, structure_points |-> 1],
     CALL  |-> [min_transcript |-> 300, structure_points |-> 1, min_duration |-> 60]]

\* loose thresholds that ask more of an email than the strict ones
LooseGatesHarder ==
    [EMAIL |-> [min_chars |-> 400, structure_points |-> 3],
     CALL  |-> [min_transcript |-> 300, structure_points |-> 0, min_duration |-> 60]]

LOOSE_GATES ==
    [EMAIL |-> [min_chars |-> 150, structure_points |-> 1],
     CALL  |-> [min_transcript |-> 300, structure_points |-> 0, min_duration |-> 60]]

\* a floor that a call of exactly 100 characters clears
CallFloorInclusive == 100 - 1

CALL_FLOOR == 100

EMAIL_FLOOR == 50

\* the alternatives of the five rescue patterns that the texts here can hold
CallCues1 == {"kakunin"}

CallCues2 == {"nittei", "kigen"}

EmailCues1 == {"nakaguro"}

EmailCues2 == {"haku", "kigen"}

EmailCues3 == {"onegai"}

NA == 0 - 1

Reason(text, a, b, mode) == [text |-> text, a |-> a, b |-> b, mode |-> mode]

\* Sampler._extract_date
ExtractDate(case) ==
    IF Strptime(case.case_id.tail) # NoDate
    THEN Strptime(case.case_id.tail)
    ELSE IF case.interactions # <<>>
         THEN TimestampDate(SetMax({case.interactions[k].timestamp : k \in 1..Len(case.interactions)}))
         ELSE NoDate

RECURSIVE ContentOfAll(_, _)
\* the bodies of all interactions joined, whatever their type
ContentOfAll(is, type) ==
    IF is = <<>> THEN <<>>
    ELSE BodyOrEmpty(Head(is).body) \o ContentOfAll(Tail(is), type)

RECURSIVE ContentOf(_, _)
\* "".join([i.body or "" for i in case.interactions if i.type == type])
ContentOf(is, type) ==
    IF is = <<>> THEN <<>>
    ELSE (IF Head(is).type = type THEN BodyOrEmpty(Head(is).body) ELSE <<>>)
         \o ContentOf(Tail(is), type)

Points(b) == IF b THEN 1 ELSE 0

\* Sampler.is_eligible: <<is_eligible, channel, reason>>
IsEligible(case, mode) ==
    LET gates == IF mode = "strict" THEN STRICT_GATES ELSE LOOSE_GATES
    IN  IF HasPhone(case)
        THEN LET content == ContentOf(case.interactions, "PHONE")
                 rescue_points == Points(Search(CallCues1, content)) + Points(Search(CallCues2, content))
             IN  IF StrLen(content) >= gates.CALL.min_transcript
                 THEN <<TRUE, "CALL", Reason("Transcript", StrLen(content), gates.CALL.min_transcript, mode)>>
                 ELSE IF StrLen(content) > CALL_FLOOR /\ rescue_points >= gates.CALL.structure_points
                 THEN <<TRUE, "CALL", Reason("Structure rescue", rescue_points, NA, mode)>>
                 ELSE <<FALSE, "CALL", Reason("Call too short", StrLen(content), NA, "-")>>
        ELSE LET content == ContentOf(case.interactions, "EMAIL")
                 rescue_points == Points(Search(EmailCues1, content)) + Points(Search(EmailCues2, content))
                                  + Points(Search(EmailCues3, content))
             IN  IF StrLen(content) >= gates.EMAIL.min_chars
                 THEN <<TRUE, "EMAIL", Reason("Email", StrLen(content), gates.EMAIL.min_chars, mode)>>
                 ELSE IF StrLen(content) > EMAIL_FLOOR /\ rescue_points >= gates.EMAIL.structure_points
                 THEN <<TRUE, "EMAIL", Reason("Structure rescue", rescue_points, NA, mode)>>
                 ELSE <<FALSE, "EMAIL", Reason("Email too short", StrLen(content), NA, "-")>>

\* a date test that leaves the last day of the period out
InPeriodEndExclusive(case, start, end) ==
    ExtractDate(case) # NoDate /\ start <= ExtractDate(case) /\ ExtractDate(case) < end

\* the date test of split_by_period: case_date and start <= case_date <= end
InPeriod(case, start, end) ==
    ExtractDate(case) # NoDate /\ start <= ExtractDate(case) /\ ExtractDate(case) <= end

\* Sampler.split_by_period: <<in_range, out_of_range>>
SplitByPeriod(cs, start, end) ==
    LET In(c) == InPeriod(c, start, end)
        Out(c) == ~InPeriod(c, start, end)
    IN  <<SelectSeq(cs, In), SelectSeq(cs, Out)>>

NoneCase == [case_id |-> [head |-> <<>>, tail |-> NA], interactions |-> <<>>, agent |-> "None"]

Result(case, status, reason, fallback) ==
    [case |-> case, status |-> status, reason |-> reason, fallback |-> fallback]

\* the TypeError of comparing a date with None leaves _select_best early
Raised == Result(NoneCase, "TypeError", Reason("'<=' not supported between 'datetime.date' and 'NoneType'", NA, NA, "-"), "None")

Skipped == Result(NoneCase, "skipped", Reason("No evaluable candidates in target or extended range.", NA, NA, "-"), "None")

\* an email pool of the cases that hold an email, calls beside it or not
ChannelPoolByEmail(cs, channel_type) ==
    LET Phone(c) == HasPhone(c)
        Mail(c) == \E k \in 1..Len(c.interactions) : c.interactions[k].type = "EMAIL"
    IN  IF channel_type = "PHONE" THEN SelectSeq(cs, Phone) ELSE SelectSeq(cs, Mail)

\* a pool that takes the cases of either channel
ChannelPoolAny(cs, channel_type) == cs

\* the pool of a channel: cases with a PHONE interaction, or cases without one
ChannelPool(cs, channel_type) ==
    LET Phone(c) == HasPhone(c)
        NoPhone(c) == ~HasPhone(c)
    IN  IF channel_type = "PHONE" THEN SelectSeq(cs, Phone) ELSE SelectSeq(cs, NoPhone)

\* no filter by agent: the cases of everyone
OfAgentAny(cs, agent) == cs

OfAgent(cs, agent) ==
    LET Mine(c) == c.agent = agent
    IN  SelectSeq(cs, Mine)

Passing(pool, mode) ==
    LET Ok(c) == IsEligible(c, mode)[1]
    IN  SelectSeq(pool, Ok)

\* the reason always taken from the strict gate, whatever the tier's mode
ChoicesStrictReason(candidates, mode, fallback) ==
    {Result(c, "selected", IsEligible(c, "strict")[3], fallback) : c \in Range(candidates)}

\* a choice that always takes the first candidate
ChoicesFirst(candidates, mode, fallback) ==
    {Result(candidates[1], "selected", IsEligible(candidates[1], mode)[3], fallback)}

\* random.choice(candidates), then the result built from the chosen case
Choices(candidates, mode, fallback) ==
    {Result(c, "selected", IsEligible(c, mode)[3], fallback) : c \in Range(candidates)}

\* tier 3's pool without the filter by extended date
ExtPoolUnbounded(agent, channel_type, all_cases, start_date, end_date) ==
    LET ext_pool == ChannelPool(OfAgent(all_cases, agent), channel_type)
        NotCurrent(c) == ~(start_date <= ExtractDate(c) /\ ExtractDate(c) <= end_date)
    IN  IF \E k \in 1..Len(ext_pool) : ExtractDate(ext_pool[k]) = NoDate
        THEN <<TRUE, <<>>>>
        ELSE <<FALSE, SelectSeq(ext_pool, NotCurrent)>>

\* tier 3's pool: lines 142-153; <<raised, ext_pool>>
ExtPool(agent, channel_type, all_cases, start_date, end_date) ==
    LET extended_start == start_date - WidenDays
        extended_end == end_date + WidenDays
        ext_pool == ChannelPool(OfAgent(all_cases, agent), channel_type)
        NotCurrent(c) == ~(start_date <= ExtractDate(c) /\ ExtractDate(c) <= end_date)
        Extended(c) == extended_start <= ExtractDate(c) /\ ExtractDate(c) <= extended_end
    IN  IF \E k \in 1..Len(ext_pool) : ExtractDate(ext_pool[k]) = NoDate
        THEN <<TRUE, <<>>>>
        ELSE <<FALSE, SelectSeq(SelectSeq(ext_pool, NotCurrent), Extended)>>

\* Sampler._select_best: the set of results it can return
SelectBest(agent, channel_type, cur_cases, all_cases, start_date, end_date) ==
    LET agent_cur_pool == ChannelPool(OfAgent(cur_cases, agent), channel_type)
        tier1 == Passing(agent_cur_pool, "strict")
        tier2 == Passing(agent_cur_pool, "loose")
        ext == ExtPool(agent, channel_type, all_cases, start_date, end_date)
        tier3 == Passing(ext[2], "strict")
    IN  IF tier1 # <<>> THEN Choices(tier1, "strict", "None")
        ELSE IF tier2 # <<>> THEN Choices(tier2, "loose", "loose_gate")
        ELSE IF ext[1] THEN {Raised}
        ELSE IF tier3 # <<>> THEN Choices(tier3, "strict", "date_widening")
        ELSE {Skipped}

\* sorted() over agent names: code point order
AgentOrder == <<"A", "B", "C", "D", "Unknown">>

\* a roster that keeps the name "Unknown"
RosterWithUnknown(all_cases) ==
    LET Seen(a) == \E k \in 1..Len(all_cases) : all_cases[k].agent = a
    IN  SelectSeq(AgentOrder, Seen)

\* a roster of every known agent name, whether or not it has a case
RosterAll(all_cases) ==
    LET Named(a) == a # "Unknown"
    IN  SelectSeq(AgentOrder, Named)

\* sorted(list(set(c.agent for c in all_cases if c.agent != "Unknown")))
Roster(all_cases) ==
    LET Seen(a) == a # "Unknown" /\ \E k \in 1..Len(all_cases) : all_cases[k].agent = a
    IN  SelectSeq(AgentOrder, Seen)

Bundle(agent, call_case, email_case) ==
    [agent |-> agent, call_case |-> call_case, email_case |-> email_case]

BundlesOf(agent, cur_cases, all_cases, start_date, end_date) ==
    {Bundle(agent, cc, ec) :
        cc \in SelectBest(agent, "PHONE", cur_cases, all_cases, start_date, end_date),
        ec \in SelectBest(agent, "EMAIL", cur_cases, all_cases, start_date, end_date)}

RECURSIVE BundleLists(_, _, _, _, _)
BundleLists(agents, cur_cases, all_cases, start_date, end_date) ==
    IF agents = <<>> THEN {<<>>}
    ELSE {<<b>> \o rest :
            b \in BundlesOf(Head(agents), cur_cases, all_cases, start_date, end_date),
            rest \in BundleLists(Tail(agents), cur_cases, all_cases, start_date, end_date)}

Raises(b) == b.call_case.status = "TypeError" \/ b.email_case.status = "TypeError"

\* the selection with its roster read off the in-range cases only
SelectSamplesRosterInRange(cur_cases, all_cases, start_date, end_date) ==
    LET lists == BundleLists(Roster(cur_cases), cur_cases, all_cases, start_date, end_date)
    IN  {<<\E k \in 1..Len(l) : Raises(l[k]), IF \E k \in 1..Len(l) : Raises(l[k]) THEN <<>> ELSE l>> :
            l \in lists}

\* Sampler.select_samples_phase6: the outcomes it can have, each
\* <<raised, results>>; an exception in any agent's selection loses the list
SelectSamplesPhase6(cur_cases, all_cases, start_date, end_date) ==
    LET lists == BundleLists(Roster(all_cases), cur_cases, all_cases, start_date, end_date)
    IN  {<<\E k \in 1..Len(l) : Raises(l[k]), IF \E k \in 1..Len(l) : Raises(l[k]) THEN <<>> ELSE l>> :
            l \in lists}

\* the cases one _select_best hands to is_eligible: the current pool in
\* tiers 1 and 2, and the extended pool when tier 3 is reached
GateCallsOf(agent, channel_type, cur_cases, all_cases, start_date, end_date) ==
    LET agent_cur_pool == ChannelPool(OfAgent(cur_cases, agent), channel_type)
        ext == ExtPool(agent, channel_type, all_cases, start_date, end_date)
    IN  Range(agent_cur_pool)
        \cup (IF Passing(agent_cur_pool, "strict") = <<>> /\ Passing(agent_cur_pool, "loose") = <<>> /\ ~ext[1]
              THEN Range(ext[2]) ELSE {})

RECURSIVE GateCalls(_, _, _, _, _)
\* the same over the roster, up to the agent whose selection raises
GateCalls(agents, cur_cases, all_cases, start_date, end_date) ==
    IF agents = <<>> THEN {}
    ELSE GateCallsOf(Head(agents), "PHONE", cur_cases, all_cases, start_date, end_date)
         \cup GateCallsOf(Head(agents), "EMAIL", cur_cases, all_cases, start_date, end_date)
         \cup (IF \E b \in BundlesOf(Head(agents), cur_cases, all_cases, start_date, end_date) : Raises(b)
               THEN {}
               ELSE GateCalls(Tail(agents), cur_cases, all_cases, start_date, end_date))

(***************************************************************************)
(* State.                                                                  *)
(*   pc            where the run is                                        *)
(*   cases         the full case list (all_cases)                          *)
(*   start_date, end_date   the target period                              *)
(*   in_range, out_of_range the two lists split_by_period returned         *)
(*   bundles       what select_samples_phase6 returned                     *)
(*   verdict       the gate's answers so far, by mode                      *)
(*   interactions  the interactions ingestion loaded                       *)
(*   reordered     the same interactions in another order                  *)
(*   cases2        what link_cases returned for reordered                  *)
(*   gated         the cases is_eligible was called on during selection,   *)
(*                 as they were at the call                                *)
(***************************************************************************)
VARIABLES pc, interactions, reordered, cases, cases2, start_date, end_date,
          in_range, out_of_range, bundles, gated, verdict,
          processing, dashboard, arrivals, local, audio_processor

vars == <<pc, interactions, reordered, cases, cases2, start_date, end_date,
          in_range, out_of_range, bundles, gated, verdict,
          processing, dashboard, arrivals, local, audio_processor>>

\* what the real-time monitor (monitor.py) reads and writes:
\*   processing  NewFileHandler.processing
\*   dashboard   the file dashboard_data.json
\*   arrivals    the results written since the file was last absent or
\*               unreadable, in the order they were written
\*   local       the local variables of each process_latest invocation
\*   audio_processor  NewFileHandler.audio_processor
monitor_vars == <<processing, dashboard, arrivals, local, audio_processor>>

\* no file dashboard_data.json
Absent == [state |-> "absent", data |-> <<>>]

\* the monitor is not running
NoMonitor ==
    /\ processing = FALSE
    /\ dashboard = Absent
    /\ arrivals = <<>>
    /\ local = <<>>
    /\ audio_processor = "None"

\* what the linker reads and returns
link_vars == <<interactions, reordered, cases2>>

NoVerdict == [m \in {} |-> <<>>]

(***************************************************************************)
(* Inputs of the selection engine: case lists a caller can build with      *)
(* Case(case_id), add_interaction and the public agent attribute.          *)
(***************************************************************************)
MaxCases == 2

PeriodStart == Date(6, 1)

PeriodEnd == Date(6, 30)

\* days on either side of every window edge, and one 10 days past the end
Days == {PeriodStart - 8, PeriodStart - 7, PeriodStart, PeriodEnd, PeriodEnd + 7, PeriodEnd + 10}

Email(agent, day, text) == Interaction("mail", "EMAIL", At(day, 0), agent, text, "log.xlsx")

Call(agent, day, text) == Interaction("M1", "PHONE", At(day, 1), agent, text, "M1_topic.mp3")

\* the interactions of a case, by what the gate makes of them:
\*   E50    an email that fails both gates
\*   E100c  an email that passes only the loose gate, by rescue (1 point)
\*   E200r  an email that passes the strict gate by rescue (2 points)
\*   E500   an email that passes the strict gate by volume
\*   P150   a call that passes only the loose gate
\*   P600   a call that passes the strict gate
\*   Mixed  a long email beside a call without transcript
Profile(p, agent, day) ==
    CASE p = "E50"    -> <<Email(agent, day, Filler(50))>>
      [] p = "E100c"  -> <<Email(agent, day, Cue("nakaguro") \o Filler(99))>>
      [] p = "E200r"  -> <<Email(agent, day, Cue("nakaguro") \o Filler(196) \o Cue("onegai"))>>
      [] p = "E500"   -> <<Email(agent, day, Filler(500))>>
      [] p = "P150"   -> <<Call(agent, day, Filler(150))>>
      [] p = "P600"   -> <<Call(agent, day, Filler(600))>>
      [] p = "Mixed"  -> <<Email(agent, day, Filler(500)), Call(agent, day, NoneBody)>>
      [] OTHER        -> <<>>

Profiles == {"E50", "E100c", "E200r", "E500", "P150", "P600"}

\* a case as the linker names it: the tail of case_id is the day
DatedCase(agent, day, p) == AddAll(NewCase(CaseId(agent, Strftime(day))), Profile(p, agent, day))

\* a hand-made case whose case_id does not end in a date (June 31 here),
\* its agent attribute set by the caller
UndatedCase(agent, day, p) ==
    [AddAll(NewCase(CaseId(agent, Year * 10000 + 631)), Profile(p, agent, day)) EXCEPT !.agent = agent]

CaseUniverse ==
    {DatedCase("A", d, p) : d \in Days, p \in Profiles}
    \cup {DatedCase("A", d, "Mixed") : d \in {PeriodStart, PeriodEnd + 7}}
    \cup {DatedCase("B", PeriodStart, "E500"), DatedCase("B", PeriodEnd + 7, "P600")}
    \cup {DatedCase("Unknown", PeriodStart, "E500")}
    \cup {UndatedCase("A", PeriodStart, "E500"), UndatedCase("A", PeriodStart, "Empty")}

RECURSIVE ListsUpTo(_, _)
ListsUpTo(S, n) ==
    IF n = 0 THEN {<<>>}
    ELSE ListsUpTo(S, n - 1) \cup {Append(l, x) : l \in {m \in ListsUpTo(S, n - 1) : Len(m) = n - 1}, x \in S}

Init ==
    /\ pc = "start"
    /\ cases \in ListsUpTo(CaseUniverse, MaxCases)
    /\ start_date = PeriodStart
    /\ end_date = PeriodEnd
    /\ in_range = <<>>
    /\ out_of_range = <<>>
    /\ bundles = <<>>
    /\ verdict = NoVerdict
    /\ NoMonitor
    /\ gated = {}
    /\ interactions = <<>> /\ reordered = <<>> /\ cases2 = <<>>

\* a split that moves the in-range cases out of the list it was given
SplitFromDestructive(at) ==
    /\ pc = at
    /\ in_range' = SplitByPeriod(cases, start_date, end_date)[1]
    /\ out_of_range' = SplitByPeriod(cases, start_date, end_date)[2]
    /\ cases' = SplitByPeriod(cases, start_date, end_date)[2]
    /\ pc' = "split"
    /\ UNCHANGED monitor_vars
    /\ UNCHANGED <<start_date, end_date, bundles, verdict, gated, link_vars>>

\* in_range_cases, _ = sampler.split_by_period(cases, start_date, end_date)
SplitFrom(at) ==
    /\ pc = at
    /\ in_range' = SplitByPeriod(cases, start_date, end_date)[1]
    /\ out_of_range' = SplitByPeriod(cases, start_date, end_date)[2]
    /\ pc' = "split"
    /\ UNCHANGED monitor_vars
    /\ UNCHANGED <<cases, start_date, end_date, bundles, verdict, gated, link_vars>>

\* sampler.select_samples_phase6(in_range_cases, cases, start_date, end_date)
SelectFrom(at) ==
    /\ pc = at
    /\ \E o \in SelectSamplesPhase6(in_range, cases, start_date, end_date) :
          /\ bundles' = o[2]
          /\ pc' = IF o[1] THEN "raised" ELSE "done"
    /\ gated' = GateCalls(Roster(cases), in_range, cases, start_date, end_date)
    /\ UNCHANGED monitor_vars
    /\ UNCHANGED <<cases, start_date, end_date, in_range, out_of_range, verdict, link_vars>>

Split == SplitFrom("start")

Select == SelectFrom("split")

Next == Split \/ Select

Spec == Init /\ [][Next]_vars

\* the same runs, for the properties of the case a tier returns, which are
\* checked in a run of their own
SpecTiers == Init /\ [][Split \/ Select]_vars

(***************************************************************************)
(* Properties of the selection engine (checked under Spec).                *)
(***************************************************************************)
Channels == {"PHONE", "EMAIL"}

ResultOf(b, ch) == IF ch = "PHONE" THEN b.call_case ELSE b.email_case

Results == {ResultOf(bundles[k], ch) : k \in 1..Len(bundles), ch \in Channels}

Returned == pc = "done"

Finished == pc \in {"done", "raised"}

InChannel(c, ch) == (ch = "PHONE") <=> HasPhone(c)

\* the cases of an agent and channel, anywhere in the input
CasesOf(a, ch) == {c \in Range(cases) : c.agent = a /\ InChannel(c, ch)}

Dated(c) == ExtractDate(c) # NoDate

InsidePeriod(c) == Dated(c) /\ start_date <= ExtractDate(c) /\ ExtractDate(c) <= end_date

\* out of the period, within 7 days of it
InsideWidened(c) ==
    /\ Dated(c)
    /\ ~InsidePeriod(c)
    /\ start_date - 7 <= ExtractDate(c)
    /\ ExtractDate(c) <= end_date + 7

Passes(c, mode) == IsEligible(c, mode)[1]

\* the tier the four-tier rule assigns to an agent and channel
ExpectedTier(a, ch) ==
    IF \E c \in CasesOf(a, ch) : InsidePeriod(c) /\ Passes(c, "strict") THEN "None"
    ELSE IF \E c \in CasesOf(a, ch) : InsidePeriod(c) /\ Passes(c, "loose") THEN "loose_gate"
    ELSE IF \E c \in CasesOf(a, ch) : InsideWidened(c) /\ Passes(c, "strict") THEN "date_widening"
    ELSE "skipped"

TierOf(r) == IF r.status = "selected" THEN r.fallback ELSE r.status

\* C1: once select_samples_phase6 has run, every roster agent and channel has
\* a result whose tier is the first of the four tiers that has a passer:
\* fallback None for a strict in-range passer, else loose_gate for a loose
\* in-range passer, else date_widening for a strict passer out of the period
\* and within the widened window, else skipped.
C1_FirstTierWins ==
    Finished =>
        \A a \in Range(Roster(cases)) : \A ch \in Channels :
            \E k \in 1..Len(bundles) :
                bundles[k].agent = a /\ TierOf(ResultOf(bundles[k], ch)) = ExpectedTier(a, ch)

\* C2: a case returned with fallback date_widening has a date strictly
\* outside [start_date, end_date] and inside [start_date - 7, end_date + 7].
C2_DateWideningExclusive ==
    Returned =>
        \A r \in Results :
            (r.status = "selected" /\ r.fallback = "date_widening") =>
                /\ Dated(r.case)
                /\ ExtractDate(r.case) < start_date \/ ExtractDate(r.case) > end_date
                /\ start_date - 7 <= ExtractDate(r.case)
                /\ ExtractDate(r.case) <= end_date + 7

C2_Witness ==
    /\ Returned
    /\ \E r \in Results : r.status = "selected" /\ r.fallback = "date_widening"

EmailLength(c) == StrLen(ContentOf(c.interactions, "EMAIL"))

\* agent a's only in-period EMAIL case has 50 characters, and a's only other
\* EMAIL case has 500 characters and is dated `off` days after the period
Scenario3(a, off) ==
    \E short, long \in CasesOf(a, "EMAIL") :
        /\ CasesOf(a, "EMAIL") = {short, long}
        /\ InsidePeriod(short) /\ EmailLength(short) = 50 /\ ~Passes(short, "loose")
        /\ Dated(long) /\ ExtractDate(long) = end_date + off /\ EmailLength(long) = 500

EmailResultsOf(a) == {bundles[k].email_case : k \in {j \in 1..Len(bundles) : bundles[j].agent = a}}

\* C3 as stated: in scenario 3, with the long case 10 days outside the
\* period, the email result is selected with fallback date_widening.
C3_Scenario3TenDays ==
    \A a \in Range(AgentOrder) :
        (Finished /\ Scenario3(a, 10)) =>
            \E r \in EmailResultsOf(a) : r.status = "selected" /\ r.fallback = "date_widening"

\* C3 amended: with the long case 10 days outside the period the email
\* result is skipped (the widened window ends 7 days out); with the long case
\* exactly 7 days outside it is selected with fallback date_widening.
C3_Scenario3Amended ==
    \A a \in Range(AgentOrder) :
        /\ (Finished /\ Scenario3(a, 10)) =>
              /\ Returned
              /\ EmailResultsOf(a) = {Skipped}
        /\ (Finished /\ Scenario3(a, 7)) =>
              /\ Returned
              /\ \E r \in EmailResultsOf(a) :
                    /\ EmailResultsOf(a) = {r}
                    /\ r.status = "selected" /\ r.fallback = "date_widening"
                    /\ EmailLength(r.case) = 500

C3_Witness == Returned /\ Scenario3("A", 10)

NoCases(a) == \A c \in Range(cases) : c.agent # a

BothSkipped(b) == b.call_case.status = "skipped" /\ b.email_case.status = "skipped"

\* C4 as stated: an agent with no case anywhere in the input has a bundle,
\* with both channels skipped.
C4_Scenario4Bundle ==
    Returned =>
        \A a \in Range(AgentOrder) \ {"Unknown"} :
            NoCases(a) => \E k \in 1..Len(bundles) : bundles[k].agent = a /\ BothSkipped(bundles[k])

\* C4 amended: an agent with no case anywhere in the input has no bundle at
\* all (the roster is read off the case list); _select_best for that agent
\* returns skipped for either channel.
C4_Scenario4Amended ==
    Returned =>
        \A a \in Range(AgentOrder) \ {"Unknown"} :
            NoCases(a) =>
                /\ \A k \in 1..Len(bundles) : bundles[k].agent # a
                /\ \A ch \in Channels :
                      SelectBest(a, ch, in_range, cases, start_date, end_date) = {Skipped}

C4_Witness == Returned /\ NoCases("B") /\ NoCases("D") /\ Len(bundles) = 1

\* C5: select_samples_phase6 never raises, and every selection it returns
\* has status selected or skipped.
C5_NoErrorPath ==
    /\ pc # "raised"
    /\ \A r \in Results : r.status \in {"selected", "skipped"}

\* C6: a case with no extractable date goes to out_of_range, and tier 3
\* passes over it: the selection returns, and never returns that case.
C6_UndatedIsNoCandidate ==
    \A c \in Range(cases) :
        ~Dated(c) =>
            /\ pc # "start" => c \in Range(out_of_range) /\ c \notin Range(in_range)
            /\ Finished => Returned /\ \A r \in Results : r.case # c

\* where sorted() puts an agent name
Rank(a) == CHOOSE k \in 1..Len(AgentOrder) : AgentOrder[k] = a

\* the distinct agent names of the full case list, "Unknown" apart
KnownAgents == {c.agent : c \in Range(cases)} \ {"Unknown"}

\* C14: the list select_samples_phase6 returns has exactly one bundle for
\* each distinct non-Unknown agent name of the full case list, in ascending
\* order of name, whether or not the agent has an in-range case.
C14_RosterFromAllCases ==
    Returned =>
        /\ {bundles[k].agent : k \in 1..Len(bundles)} = KnownAgents
        /\ Len(bundles) = Cardinality(KnownAgents)
        /\ \A k, m \in 1..Len(bundles) : k < m => Rank(bundles[k].agent) < Rank(bundles[m].agent)

\* agent B, listed before A, has a case only outside the period
C14_Witness ==
    /\ Returned
    /\ Len(cases) = 2 /\ cases[1].agent = "B" /\ cases[2].agent = "A"
    /\ \A c \in Range(in_range) : c.agent # "B"
    /\ Len(bundles) = 2 /\ bundles[2].agent = "B"

\* the j-th smallest member of a set of positions
NthOf(S, j) == CHOOSE k \in S : Cardinality({m \in S : m <= k}) = j

\* list l holds the cases at the positions S of the input, in input order
KeepsOrder(l, S) ==
    /\ Len(l) = Cardinality(S)
    /\ \A j \in 1..Len(l) : l[j] = cases[NthOf(S, j)]

\* C18: split_by_period puts every case of the input in exactly one of
\* in_range and out_of_range, in in_range exactly when the case has a date
\* with start_date <= date <= end_date, and both lists keep the input order.
C18_SplitPartitions ==
    pc # "start" =>
        LET inside == {k \in 1..Len(cases) : InsidePeriod(cases[k])}
        IN  /\ KeepsOrder(in_range, inside)
            /\ KeepsOrder(out_of_range, (1..Len(cases)) \ inside)

\* the last day of the period and the day after the widened window, the
\* later case listed first
C18_Witness ==
    /\ pc = "split"
    /\ Len(cases) = 2
    /\ ExtractDate(cases[1]) = end_date + 10
    /\ ExtractDate(cases[2]) = end_date
    /\ in_range = <<cases[2]>>
    /\ out_of_range = <<cases[1]>>

\* the cases of agent a and channel ch in a list, the others removed
OnlyOf(cs, a, ch) ==
    LET Mine(c) == c.agent = a /\ InChannel(c, ch)
    IN  SelectSeq(cs, Mine)

\* what _select_best can return for a and ch when it is given nothing but
\* the cases of a and ch
AloneResults(a, ch) ==
    SelectBest(a, ch, OnlyOf(in_range, a, ch), OnlyOf(cases, a, ch), start_date, end_date)

\* C19: for every agent and channel, the results _select_best can return
\* (tier, candidates, or the TypeError) are the same as on the input reduced
\* to that agent's cases of that channel, so the agent's cases of the other
\* channel and the other agents' cases do not bear on them; and each returned
\* bundle holds such results.
C19_ChannelsIndependent ==
    Finished =>
        \A a \in Range(Roster(cases)) : \A ch \in Channels :
            LET alone == AloneResults(a, ch)
            IN  /\ SelectBest(a, ch, in_range, cases, start_date, end_date) = alone
                /\ \A k \in 1..Len(bundles) :
                      bundles[k].agent = a => ResultOf(bundles[k], ch) \in alone

\* one agent, one run: a call of the first tier and an email of the third
C19_Witness ==
    /\ Returned
    /\ \E k \in 1..Len(bundles) :
          /\ bundles[k].call_case.status = "selected"
          /\ bundles[k].call_case.fallback = "None"
          /\ bundles[k].email_case.status = "selected"
          /\ bundles[k].email_case.fallback = "date_widening"

ModeOf(fallback) == IF fallback = "loose_gate" THEN "loose" ELSE "strict"

PassReasons == {"Transcript", "Email", "Structure rescue"}

TierCandidates(a, ch, tier) ==
    {c \in CasesOf(a, ch) :
        CASE tier = "None" -> InsidePeriod(c) /\ Passes(c, "strict")
          [] tier = "loose_gate" -> InsidePeriod(c) /\ Passes(c, "loose")
          [] tier = "date_widening" -> InsideWidened(c) /\ Passes(c, "strict")
          [] OTHER -> FALSE}

SelectedCases(rs) == {r.case : r \in {x \in rs : x.status = "selected"}}

\* C21: a returned case is one of the passing candidates of its tier, with
\* the gate's reason for it under the tier's mode; each of these candidates
\* is a case _select_best can return; and an in-period case that passes the
\* strict gate by structure rescue is returned with fallback None and the
\* reason "Structure rescue".
C21_AnyCandidateOfTheTier ==
    Finished =>
        \A a \in Range(Roster(cases)) : \A ch \in Channels :
            LET best == SelectBest(a, ch, in_range, cases, start_date, end_date)
            IN  /\ (best # {Raised} /\ best # {Skipped}) =>
                      \E tier \in {r.fallback : r \in best} :
                          /\ \A r \in best : r.status = "selected" /\ r.fallback = tier
                          /\ SelectedCases(best) = TierCandidates(a, ch, tier)
                /\ \A k \in 1..Len(bundles) :
                      (bundles[k].agent = a /\ ResultOf(bundles[k], ch).status = "selected") =>
                          LET r == ResultOf(bundles[k], ch)
                          IN  /\ r.case \in TierCandidates(a, ch, r.fallback)
                              /\ r.reason = IsEligible(r.case, ModeOf(r.fallback))[3]
                              /\ (InsidePeriod(r.case)
                                    /\ IsEligible(r.case, "strict")[3].text = "Structure rescue")
                                 => r.fallback = "None" /\ r.reason.text = "Structure rescue"
                                      /\ r.reason.mode = "strict"

\* two in-period emails pass the strict gate, one by volume and one by
\* rescue, and the rescued one is the one returned
C21_Witness ==
    /\ Returned
    /\ Cardinality(TierCandidates("A", "EMAIL", "None")) = 2
    /\ \E c \in TierCandidates("A", "EMAIL", "None") :
          IsEligible(c, "strict")[3].text = "Email"
    /\ \E k \in 1..Len(bundles) :
          /\ bundles[k].email_case.status = "selected"
          /\ bundles[k].email_case.fallback = "None"
          /\ bundles[k].email_case.reason.text = "Structure rescue"

\* C24: every selected case has the agent of its bundle and a date from
\* start_date - 7 days to end_date + 7 days; with fallback None or loose_gate
\* its date is from start_date to end_date.
C24_SelectedAgentAndDate ==
    Returned =>
        \A k \in 1..Len(bundles) : \A ch \in Channels :
            LET r == ResultOf(bundles[k], ch)
            IN  r.status = "selected" =>
                    LET d == ExtractDate(r.case)
                    IN  /\ r.case.agent = bundles[k].agent
                        /\ d # NoDate
                        /\ start_date - 7 <= d /\ d <= end_date + 7
                        /\ r.fallback \in {"None", "loose_gate"} => start_date <= d /\ d <= end_date

\* two agents: one sample from the first day of the widened window, one
\* from inside the period
C24_Witness ==
    /\ Returned
    /\ Len(bundles) = 2
    /\ \E r \in Results :
          r.status = "selected" /\ r.fallback = "date_widening" /\ ExtractDate(r.case) = start_date - 7
    /\ \E r \in Results :
          r.status = "selected" /\ r.fallback = "None" /\ r.case.agent = "B"

\* C9: every result is one of the two shapes: selected, with a case of the
\* input that passes the tier's gate and that gate's reason; or skipped, with
\* no case, no fallback and the no-candidates reason.
C9_ResultShape ==
    Returned =>
        \A r \in Results :
            /\ r.status \in {"selected", "skipped"}
            /\ r.status = "selected" =>
                  /\ r.case # NoneCase
                  /\ r.case \in Range(cases)
                  /\ r.fallback \in {"None", "loose_gate", "date_widening"}
                  /\ Passes(r.case, ModeOf(r.fallback))
                  /\ r.reason = IsEligible(r.case, ModeOf(r.fallback))[3]
            /\ r.status = "skipped" =>
                  /\ r.case = NoneCase
                  /\ r.fallback = "None"
                  /\ r.reason = Skipped.reason

C9_Witness ==
    /\ Returned
    /\ \E r \in Results : r.status = "selected" /\ r.fallback = "loose_gate"
    /\ \E r \in Results : r.status = "skipped"

(***************************************************************************)
(* The gate alone: is_eligible applied, in both modes, to one case.        *)
(***************************************************************************)
MaxBodies == 2

Thresholds ==
    {STRICT_GATES.CALL.min_transcript, LOOSE_GATES.CALL.min_transcript,
     STRICT_GATES.EMAIL.min_chars, LOOSE_GATES.EMAIL.min_chars, CALL_FLOOR, EMAIL_FLOOR}

\* every length next to a threshold or a floor, and the empty text
GateLengths == {0} \cup UNION {{t - 1, t, t + 1} : t \in Thresholds}

CueOrder == <<"kakunin", "kigen", "nakaguro", "onegai">>

RECURSIVE CueText(_, _)
CueText(order, cs) ==
    IF order = <<>> THEN <<>>
    ELSE (IF Head(order) \in cs THEN Cue(Head(order)) ELSE <<>>) \o CueText(Tail(order), cs)

\* a text of n characters holding exactly the cues cs
Text(n, cs) ==
    IF n = StrLen(CueText(CueOrder, cs)) THEN CueText(CueOrder, cs)
    ELSE CueText(CueOrder, cs) \o Filler(n - StrLen(CueText(CueOrder, cs)))

GateTexts ==
    {NoneBody} \cup
    {Text(n, cs) : n \in {m \in GateLengths : m >= 10}, cs \in SUBSET Range(CueOrder)}
    \cup {Text(0, {})}

\* the bodies of the cases that have several interactions
PartTexts ==
    {NoneBody, Text(60, {}), Text(300, {}), Text(60, {"kakunin"}), Text(60, {"nakaguro"}),
     Text(60, {"onegai"})}

GateInteraction(type, text) ==
    Interaction("x", type, At(PeriodStart, 0), "A", text, IF type = "PHONE" THEN "M1_topic.mp3" ELSE "log.xlsx")

GateCases ==
    {AddAll(NewCase(CaseId("A", Strftime(PeriodStart))), is) :
        is \in {<<GateInteraction(ty, tx)>> : ty \in {"PHONE", "EMAIL"}, tx \in GateTexts}
               \cup {l \in ListsUpTo({GateInteraction(ty, tx) : ty \in {"PHONE", "EMAIL"}, tx \in PartTexts}, MaxBodies) :
                        Len(l) >= 2}}

InitGate ==
    /\ pc = "gate"
    /\ cases \in {<<c>> : c \in GateCases}
    /\ start_date = PeriodStart
    /\ end_date = PeriodEnd
    /\ in_range = <<>>
    /\ out_of_range = <<>>
    /\ bundles = <<>>
    /\ verdict = NoVerdict
    /\ NoMonitor
    /\ gated = {}
    /\ interactions = <<>> /\ reordered = <<>> /\ cases2 = <<>>

\* sampler.is_eligible(case, mode)
Gate(mode) ==
    /\ pc = "gate"
    /\ mode \notin DOMAIN verdict
    /\ verdict' = [m \in DOMAIN verdict \cup {mode} |->
                      IF m = mode THEN IsEligible(cases[1], mode) ELSE verdict[m]]
    /\ UNCHANGED monitor_vars
    /\ UNCHANGED <<pc, cases, start_date, end_date, in_range, out_of_range, bundles, gated, link_vars>>

GateStrict == Gate("strict")

GateLoose == Gate("loose")

NextGate == GateStrict \/ GateLoose

SpecGate == InitGate /\ [][NextGate]_vars

BothVerdicts == DOMAIN verdict = {"strict", "loose"}

\* C7: a case the gate passes in strict mode it passes in loose mode too,
\* for a call and for an email, by volume or by structure rescue.
C7_TierMonotonicity ==
    BothVerdicts => (verdict["strict"][1] => verdict["loose"][1])

C7_Witness ==
    /\ BothVerdicts
    /\ verdict["strict"][1]
    /\ verdict["strict"][2] = "EMAIL"
    /\ verdict["strict"][3].text = "Structure rescue"
    /\ verdict["loose"][1]
    /\ verdict["loose"][3].text = "Structure rescue"

\* the case the gate was called on
Gated == cases[1]

GateChannel(c) == IF HasPhone(c) THEN "CALL" ELSE "EMAIL"

\* the concatenated bodies of the interactions of the case's channel
GateContent(c) == ContentOf(c.interactions, IF HasPhone(c) THEN "PHONE" ELSE "EMAIL")

\* how many of the channel's rescue patterns occur in the content
RescuePoints(c) ==
    IF HasPhone(c)
    THEN Cardinality({g \in {CallCues1, CallCues2} : Search(g, GateContent(c))})
    ELSE Cardinality({g \in {EmailCues1, EmailCues2, EmailCues3} : Search(g, GateContent(c))})

VolumeThreshold(ch, mode) ==
    CASE ch = "CALL" /\ mode = "strict" -> 600
      [] ch = "CALL" /\ mode = "loose" -> 300
      [] ch = "EMAIL" /\ mode = "strict" -> 350
      [] ch = "EMAIL" /\ mode = "loose" -> 150

Floor(ch) == IF ch = "CALL" THEN 100 ELSE 50

RescueMinimum(ch, mode) ==
    CASE ch = "CALL" /\ mode = "strict" -> 1
      [] ch = "CALL" /\ mode = "loose" -> 0
      [] ch = "EMAIL" /\ mode = "strict" -> 2
      [] ch = "EMAIL" /\ mode = "loose" -> 1

\* C16: is_eligible passes a case exactly when its content length meets the
\* mode's volume threshold (CALL 600 strict, 300 loose; EMAIL 350 strict, 150
\* loose), or exceeds the channel's floor (CALL 100, EMAIL 50) with at least
\* the mode's minimum of rescue points (CALL 1 strict, 0 loose; EMAIL 2
\* strict, 1 loose).
C16_GateVerdict ==
    \A mode \in DOMAIN verdict :
        verdict[mode][1] <=>
            \/ StrLen(GateContent(Gated)) >= VolumeThreshold(GateChannel(Gated), mode)
            \/ /\ StrLen(GateContent(Gated)) > Floor(GateChannel(Gated))
               /\ RescuePoints(Gated) >= RescueMinimum(GateChannel(Gated), mode)

\* a call just over the floor without any rescue pattern: refused by the
\* strict gate, rescued by the loose one
C16_Witness ==
    /\ BothVerdicts
    /\ GateChannel(Gated) = "CALL"
    /\ StrLen(GateContent(Gated)) = 101
    /\ RescuePoints(Gated) = 0
    /\ ~verdict["strict"][1]
    /\ verdict["loose"][1]

\* the case without its interactions of the other channel
OwnChannelOnly(c) ==
    LET Own(i) == i.type = (IF HasPhone(c) THEN "PHONE" ELSE "EMAIL")
    IN  [c EXCEPT !.interactions = SelectSeq(c.interactions, Own)]

HasEmail(c) == \E k \in 1..Len(c.interactions) : c.interactions[k].type = "EMAIL"

\* C17: is_eligible reports CALL when some interaction of the case is a call
\* and EMAIL otherwise, and its verdict and reason are those of the case
\* stripped of the interactions of the other channel: the email bodies of a
\* mixed case change nothing.
C17_ChannelInference ==
    \A mode \in DOMAIN verdict :
        /\ verdict[mode][2] = (IF HasPhone(Gated) THEN "CALL" ELSE "EMAIL")
        /\ verdict[mode] = IsEligible(OwnChannelOnly(Gated), mode)

\* a mixed case whose email alone would pass both gates and whose call is
\* too short for either
C17_Witness ==
    /\ BothVerdicts
    /\ HasPhone(Gated) /\ HasEmail(Gated)
    /\ StrLen(ContentOf(Gated.interactions, "EMAIL")) >= 150
    /\ verdict["loose"][2] = "CALL"
    /\ ~verdict["loose"][1]
    /\ verdict["loose"][3].a = StrLen(ContentOf(Gated.interactions, "PHONE"))

\* C25: in loose mode a case with a call passes exactly when its joined
\* transcripts are longer than 100 characters, whatever cues they hold: from
\* 101 to 299 characters by structure rescue, from 300 by volume.
C25_LooseCallOverFloor ==
    ("loose" \in DOMAIN verdict /\ HasPhone(Gated)) =>
        LET n == StrLen(ContentOf(Gated.interactions, "PHONE"))
        IN  /\ verdict["loose"][1] <=> n > 100
            /\ (n > 100 /\ n < 300) => verdict["loose"][3].text = "Structure rescue"
            /\ n >= 300 => verdict["loose"][3].text = "Transcript"
            /\ n <= 100 => verdict["loose"][3].text = "Call too short"

\* a transcript of 299 characters without a cue, rescued
C25_Witness ==
    /\ "loose" \in DOMAIN verdict
    /\ HasPhone(Gated)
    /\ StrLen(ContentOf(Gated.interactions, "PHONE")) = 299
    /\ RescuePoints(Gated) = 0
    /\ verdict["loose"][1]
    /\ verdict["loose"][3] = Reason("Structure rescue", 0, NA, "loose")

(***************************************************************************)
(* Ingested interactions, for the linker and for the weekly pipeline.      *)
(* load_audio_logs gives a call its file and no body; load_email_logs      *)
(* gives an email its body.                                                *)
(***************************************************************************)
MaxInteractions == 3

AudioCall(id, agent, timestamp, file_path) ==
    Interaction(id, "PHONE", timestamp, agent, NoneBody, file_path)

LoggedEmail(id, agent, timestamp, text) ==
    Interaction(id, "EMAIL", timestamp, agent, text, "log.xlsx")

InteractionUniverse ==
    {AudioCall("M1", "A", At(PeriodStart, 1), "M1_topic_A.mp3"),
     AudioCall("M2", "A", At(PeriodStart - 7, 0), "M2_topic_A.mp3"),
     AudioCall("M3", "B", At(PeriodEnd, 0), "M3_topic_B.mp3"),
     AudioCall("M4", "C", At(PeriodStart, 0), "M4_topic_C.mp3"),
     LoggedEmail("e1", "A", At(PeriodStart, 0), Text(500, {})),
     LoggedEmail("e2", "A", At(PeriodStart, 1), Text(50, {})),
     LoggedEmail("e3", "A", At(PeriodEnd + 7, 0), Text(500, {})),
     LoggedEmail("e4", "Unknown", At(PeriodStart, 0), Text(500, {}))}

\* the lists of distinct interactions
Loads == {l \in ListsUpTo(InteractionUniverse, MaxInteractions) : Cardinality(Range(l)) = Len(l)}

Orderings(l) == {m \in Loads : Len(m) = Len(l) /\ Range(m) = Range(l)}

Idle ==
    /\ start_date = PeriodStart
    /\ end_date = PeriodEnd
    /\ in_range = <<>>
    /\ out_of_range = <<>>
    /\ bundles = <<>>
    /\ gated = {}
    /\ verdict = NoVerdict
    /\ NoMonitor

(***************************************************************************)
(* The linker alone: link_cases on a list and on a reordering of it.       *)
(***************************************************************************)
InitLink ==
    /\ pc = "link"
    /\ interactions \in Loads
    /\ reordered \in Orderings(interactions)
    /\ cases = <<>>
    /\ cases2 = <<>>
    /\ Idle

\* linker.link_cases(interactions)
Link ==
    /\ pc = "link"
    /\ cases' = LinkCases(interactions)
    /\ pc' = "linked"
    /\ UNCHANGED monitor_vars
    /\ UNCHANGED <<interactions, reordered, cases2, start_date, end_date, in_range,
                   out_of_range, bundles, gated, verdict>>

\* linker.link_cases again, on the other ordering
Relink ==
    /\ pc = "linked"
    /\ cases2' = LinkCases(reordered)
    /\ pc' = "relinked"
    /\ UNCHANGED monitor_vars
    /\ UNCHANGED <<interactions, reordered, cases, start_date, end_date, in_range,
                   out_of_range, bundles, gated, verdict>>

NextLink == Link \/ Relink

SpecLink == InitLink /\ [][NextLink]_vars

CaseIds(cs) == {cs[k].case_id : k \in 1..Len(cs)}

\* the interactions found under a case_id
Members(cs, id) == UNION {Range(cs[k].interactions) : k \in {j \in 1..Len(cs) : cs[j].case_id = id}}

\* C10: two orderings of the same interactions are linked into the same
\* case_ids, each with the same members and carried by exactly one case.
C10_LinkingDeterministic ==
    pc = "relinked" =>
        /\ CaseIds(cases) = CaseIds(cases2)
        /\ Len(cases) = Cardinality(CaseIds(cases))
        /\ Len(cases2) = Cardinality(CaseIds(cases2))
        /\ \A id \in CaseIds(cases) : Members(cases, id) = Members(cases2, id)

C10_Witness ==
    /\ pc = "relinked"
    /\ reordered # interactions
    /\ cases # cases2
    /\ Len(cases) >= 2
    /\ \E k \in 1..Len(cases) : Len(cases[k].interactions) >= 2

Linked == pc \in {"linked", "relinked"}

\* the (agent, timestamp.date()) key of an interaction, as the case_id spells it
KeyOf(i) == CaseId(i.agent, Strftime(TimestampDate(i.timestamp)))

\* C11: every case link_cases returns has at least one interaction, and each
\* of its interactions has the case's agent and the agent and day that the
\* case_id spells.
C11_NoEmptyOrCrossDayCase ==
    Linked =>
        \A k \in 1..Len(cases) :
            /\ Len(cases[k].interactions) >= 1
            /\ \A j \in 1..Len(cases[k].interactions) :
                /\ cases[k].interactions[j].agent = cases[k].agent
                /\ KeyOf(cases[k].interactions[j]) = cases[k].case_id
                /\ Strptime(cases[k].case_id.tail) = TimestampDate(cases[k].interactions[j].timestamp)

\* one agent with interactions on two days, and a day with two interactions
C11_Witness ==
    /\ Linked
    /\ \E k, m \in 1..Len(cases) :
        /\ cases[k].agent = cases[m].agent
        /\ cases[k].case_id.tail # cases[m].case_id.tail
        /\ Len(cases[k].interactions) >= 2

\* how many times interaction i sits in the cases cs
Occurrences(cs, i) ==
    Cardinality(UNION {{<<k, j>> : j \in {n \in 1..Len(cs[k].interactions) : cs[k].interactions[n] = i}} :
                          k \in 1..Len(cs)})

\* C12: link_cases returns one case per (agent, day) key of the input, with
\* pairwise distinct case_ids, and every input interaction sits exactly once
\* in the returned cases, in the case of its key.
C12_LinkingPartitions ==
    Linked =>
        /\ CaseIds(cases) = {KeyOf(i) : i \in Range(interactions)}
        /\ Len(cases) = Cardinality({KeyOf(i) : i \in Range(interactions)})
        /\ \A i \in Range(interactions) :
            /\ Occurrences(cases, i) = 1
            /\ i \in Members(cases, KeyOf(i))
        /\ \A k \in 1..Len(cases) : Range(cases[k].interactions) \subseteq Range(interactions)

\* a call and an email of one key, beside an interaction of another key
C12_Witness ==
    /\ Linked
    /\ Len(interactions) = MaxInteractions
    /\ Len(cases) = 2
    /\ \E k \in 1..Len(cases) :
        {cases[k].interactions[j].type : j \in 1..Len(cases[k].interactions)} = {"PHONE", "EMAIL"}

\* C13: the interactions of every returned case are in non-decreasing
\* timestamp order.
C13_CaseSortedByTimestamp ==
    Linked =>
        \A k \in 1..Len(cases) :
            \A j \in 1..Len(cases[k].interactions) - 1 :
                cases[k].interactions[j].timestamp <= cases[k].interactions[j + 1].timestamp

\* two interactions of one case that were loaded latest first
C13_Witness ==
    /\ Linked
    /\ \E a, b \in 1..Len(interactions) :
        /\ a < b
        /\ KeyOf(interactions[a]) = KeyOf(interactions[b])
        /\ interactions[a].timestamp > interactions[b].timestamp

(***************************************************************************)
(* One Case and a caller adding interactions to it, of any agent.          *)
(* `interactions` logs the calls in the order they were made.              *)
(***************************************************************************)
AddUniverse ==
    {LoggedEmail("e4", "Unknown", At(PeriodStart, 0), Text(500, {})),
     LoggedEmail("e1", "A", At(PeriodStart, 0), Text(500, {})),
     LoggedEmail("e6", "B", At(PeriodStart, 1), Text(50, {})),
     AudioCall("M1", "A", At(PeriodStart, 1), "M1_topic_A.mp3"),
     AudioCall("M3", "B", At(PeriodEnd, 0), "M3_topic_B.mp3")}

InitCase ==
    /\ pc = "case"
    /\ cases = <<NewCase(CaseId("A", Strftime(PeriodStart)))>>
    /\ interactions = <<>>
    /\ reordered = <<>>
    /\ cases2 = <<>>
    /\ Idle

\* case.add_interaction(interaction)
AddOne ==
    /\ pc = "case"
    /\ Len(interactions) < MaxInteractions
    /\ \E i \in AddUniverse :
          /\ cases' = <<AddInteraction(cases[1], i)>>
          /\ interactions' = Append(interactions, i)
    /\ UNCHANGED monitor_vars
    /\ UNCHANGED <<pc, reordered, cases2, start_date, end_date, in_range, out_of_range,
                   bundles, gated, verdict>>

NextCase == AddOne

SpecCase == InitCase /\ [][NextCase]_vars

\* the positions of the calls that brought a known agent
KnownCalls == {k \in 1..Len(interactions) : interactions[k].agent # "Unknown"}

\* C22: after any sequence of add_interaction calls the case's agent is the
\* agent of the first interaction added with an agent other than "Unknown",
\* or "Unknown" when there is none, and its interactions are the added ones
\* in call order.
C22_AgentFirstWriteWins ==
    pc = "case" =>
        /\ cases[1].interactions = interactions
        /\ cases[1].agent = IF KnownCalls = {} THEN "Unknown"
                            ELSE interactions[CHOOSE k \in KnownCalls : \A m \in KnownCalls : k <= m].agent

\* an unassigned interaction, then one of A, then one of B
C22_Witness ==
    /\ pc = "case"
    /\ Len(interactions) = 3
    /\ interactions[1].agent = "Unknown"
    /\ interactions[2].agent = "A"
    /\ interactions[3].agent = "B"
    /\ cases[1].agent = "A"

(***************************************************************************)
(* The linker feeding the selection engine: link_cases, split_by_period    *)
(* and select_samples_phase6 on everything that was loaded, the rows       *)
(* without 担当者 (agent "Unknown") included.                              *)
(***************************************************************************)
UnassignedEmail == LoggedEmail("e5", "Unknown", At(PeriodStart, 1), Text(500, {}))

AllLoads ==
    {l \in ListsUpTo(InteractionUniverse \cup {UnassignedEmail}, MaxInteractions) :
        Cardinality(Range(l)) = Len(l)}

InitLinkSelect ==
    /\ pc = "link"
    /\ interactions \in AllLoads
    /\ reordered = interactions
    /\ cases = <<>>
    /\ cases2 = <<>>
    /\ Idle

SplitLinked == SplitFrom("linked")

NextLinkSelect == Link \/ SplitLinked \/ Select

SpecLinkSelect == InitLinkSelect /\ [][NextLinkSelect]_vars

UnknownOn(day) ==
    {i \in Range(interactions) : i.agent = "Unknown" /\ TimestampDate(i.timestamp) = day}

\* C15: the interactions of agent "Unknown" of a day make up one case of
\* link_cases, whose agent is "Unknown"; no bundle has agent "Unknown", and
\* no selected case has agent "Unknown".
C15_UnknownFormsCaseNotBundle ==
    /\ pc # "link" =>
          \A i \in Range(interactions) :
              i.agent = "Unknown" =>
                  \E k \in 1..Len(cases) :
                      /\ cases[k].agent = "Unknown"
                      /\ Range(cases[k].interactions) = UnknownOn(TimestampDate(i.timestamp))
    /\ Finished =>
          /\ Returned
          /\ \A k \in 1..Len(bundles) : bundles[k].agent # "Unknown"
          /\ \A r \in Results : r.status = "selected" => r.case.agent # "Unknown"

\* two unassigned emails of one day, in period and long enough for the
\* strict gate, beside an interaction of a named agent
C15_Witness ==
    /\ Returned
    /\ Len(bundles) = 1
    /\ \E k \in 1..Len(in_range) :
          /\ in_range[k].agent = "Unknown"
          /\ Len(in_range[k].interactions) = 2
          /\ Passes(in_range[k], "strict")

(***************************************************************************)
(* The weekly pipeline of main.py, from the loaded interactions to the     *)
(* selection bundles.                                                      *)
(***************************************************************************)
\* the agents whose name holds one of target_agents
TargetAgents == {"A", "B"}

\* audio_processor.transcribe: a transcript, or the bracketed error text
Transcripts == {Text(600, {}), Text(30, {})}

AudioFiles == {i.file_path : i \in {j \in InteractionUniverse : j.type = "PHONE"}}

InitMain ==
    /\ pc = "load"
    /\ interactions \in Loads
    /\ reordered = <<>>
    /\ cases = <<>>
    /\ cases2 = <<>>
    /\ Idle

\* cases = linker.link_cases(interactions), then the agent filter
MainLink ==
    /\ pc = "load"
    /\ cases' = LET Target(c) == c.agent \in TargetAgents
                IN  SelectSeq(LinkCases(interactions), Target)
    /\ pc' = "start"
    /\ UNCHANGED monitor_vars
    /\ UNCHANGED <<interactions, reordered, cases2, start_date, end_date, in_range,
                   out_of_range, bundles, gated, verdict>>

\* the body main gives an interaction of an in-range case
Transcribed(i, tr) ==
    IF i.type = "PHONE" /\ i.file_path # "None" /\ BodyFalsy(i.body)
    THEN [i EXCEPT !.body = tr[i.file_path]]
    ELSE i

TranscribedCase(c, tr) ==
    [c EXCEPT !.interactions = [k \in 1..Len(c.interactions) |-> Transcribed(c.interactions[k], tr)]]

\* "Pre-transcribing in-range calls for gating": the Case objects of
\* in_range_cases are those of cases, so both lists see the new bodies
Transcribe ==
    /\ pc = "split"
    /\ \E tr \in [AudioFiles -> Transcripts] :
          /\ in_range' = [k \in 1..Len(in_range) |-> TranscribedCase(in_range[k], tr)]
          /\ cases' = [k \in 1..Len(cases) |->
                          IF cases[k] \in Range(in_range) THEN TranscribedCase(cases[k], tr) ELSE cases[k]]
    /\ pc' = "transcribed"
    /\ UNCHANGED monitor_vars
    /\ UNCHANGED <<interactions, reordered, cases2, start_date, end_date, out_of_range,
                   bundles, gated, verdict>>

MainSelect == SelectFrom("transcribed")

NextMain == MainLink \/ Split \/ Transcribe \/ MainSelect

SpecMain == InitMain /\ [][NextMain]_vars

NeedsTranscript(i) == i.type = "PHONE" /\ i.file_path # "None"

\* C8: every case the gate is called on has a body in each of its calls
\* that came with an audio file, in range or reached by date widening.
C8_TranscribedBeforeGate ==
    \A c \in gated :
        \A k \in 1..Len(c.interactions) :
            NeedsTranscript(c.interactions[k]) => ~BodyFalsy(c.interactions[k].body)

\* C23: in every bundle a selected call_case holds a PHONE interaction and a
\* selected email_case holds none, so the two are never the same case and a
\* case of calls and emails is never the email sample.
C23_PoolsDisjoint ==
    Returned =>
        \A k \in 1..Len(bundles) :
            /\ bundles[k].call_case.status = "selected" => HasPhone(bundles[k].call_case.case)
            /\ bundles[k].email_case.status = "selected" => ~HasPhone(bundles[k].email_case.case)
            /\ (bundles[k].call_case.status = "selected" /\ bundles[k].email_case.status = "selected")
                  => bundles[k].call_case.case # bundles[k].email_case.case

\* a day's case of a transcribed call and a long email is the call sample,
\* and the email sample is not selected from it
C23_Witness ==
    /\ Returned
    /\ \E k \in 1..Len(bundles) :
          /\ bundles[k].call_case.status = "selected"
          /\ HasEmail(bundles[k].call_case.case)
          /\ StrLen(ContentOf(bundles[k].call_case.case.interactions, "EMAIL")) >= 350
          /\ bundles[k].email_case.status = "skipped"

(***************************************************************************)
(* The dashboard file, monitor.py update_dashboard_json.                   *)
(* A file is absent, unreadable as JSON, or holds a list of results.       *)
(***************************************************************************)
Unreadable == [state |-> "unreadable", data |-> <<>>]

File(data) == [state |-> "list", data |-> data]

\* data[:50]
Keep == 50

Shorter(a, b) == IF a <= b THEN a ELSE b

\* data = [] unless the file exists and json.load succeeds
ReadData(file) == IF file.state = "list" THEN file.data ELSE <<>>

\* result["timestamp"] = datetime.now()...
Stamped(result, now) == [case_id |-> result.case_id, agent |-> result.agent, timestamp |-> now]

UpdatedDataAppended(data, result) ==
    LET appended == data \o <<result>>
    IN  SubSeq(appended, 1, Shorter(Len(appended), Keep))

\* data.insert(0, result); data = data[:50]
UpdatedData(data, result) ==
    LET inserted == <<result>> \o data
    IN  SubSeq(inserted, 1, Shorter(Len(inserted), Keep))

\* what evaluate_case returns for a case, as far as the dashboard orders it
EvaluationOf(case) == [case_id |-> case.case_id, agent |-> case.agent]

\* the results written into the readable file so far
WrittenBefore(file, written) == IF file.state = "list" THEN written ELSE <<>>

(***************************************************************************)
(* update_dashboard_json called again and again, one call after another.   *)
(* Results are stamped with the number of their arrival.                   *)
(***************************************************************************)
MaxUpdates == 52

EarlierResult(n) == [case_id |-> CaseId("B", Strftime(PeriodStart)), agent |-> "B", timestamp |-> 0 - n]

InitDashboard ==
    /\ pc = "dashboard"
    /\ dashboard \in {Absent, Unreadable, File(<<>>), File(<<EarlierResult(1)>>),
                      File(<<EarlierResult(1), EarlierResult(2)>>)}
    /\ arrivals = [k \in 1..Len(dashboard.data) |-> dashboard.data[Len(dashboard.data) + 1 - k]]
    /\ processing = FALSE
    /\ local = <<>>
    /\ audio_processor = "None"
    /\ interactions = <<>>
    /\ reordered = <<>>
    /\ cases = <<>>
    /\ cases2 = <<>>
    /\ start_date = PeriodStart
    /\ end_date = PeriodEnd
    /\ in_range = <<>>
    /\ out_of_range = <<>>
    /\ bundles = <<>>
    /\ gated = {}
    /\ verdict = NoVerdict

UpdateDashboard ==
    /\ pc = "dashboard"
    /\ Len(arrivals) < MaxUpdates
    /\ LET result == Stamped(EvaluationOf(NewCase(CaseId("A", Strftime(PeriodStart)))),
                             Len(WrittenBefore(dashboard, arrivals)) + 1)
       IN  /\ dashboard' = File(UpdatedData(ReadData(dashboard), result))
           /\ arrivals' = Append(WrittenBefore(dashboard, arrivals), result)
    /\ UNCHANGED <<pc, interactions, reordered, cases, cases2, start_date, end_date,
                   in_range, out_of_range, bundles, gated, verdict,
                   processing, local, audio_processor>>

NextDashboard == UpdateDashboard

SpecDashboard == InitDashboard /\ [][NextDashboard]_vars

\* C28: after any sequence of update_dashboard_json calls the dashboard
\* list holds at most 50 entries, the latest result at index 0, and it is
\* exactly the most recent min(n, 50) results in reverse order of arrival
C28_NewestFiftyFirst ==
    (pc = "dashboard" /\ arrivals # <<>>) =>
        /\ dashboard.state = "list"
        /\ Len(dashboard.data) <= Keep
        /\ Len(dashboard.data) = Shorter(Len(arrivals), Keep)
        /\ \A j \in 1..Len(dashboard.data) :
              dashboard.data[j] = arrivals[Len(arrivals) + 1 - j]

C28_Witness ==
    /\ pc = "dashboard"
    /\ Len(arrivals) > Keep
    /\ Len(dashboard.data) = Keep
    /\ dashboard.data[1] = arrivals[Len(arrivals)]
    /\ dashboard.data[1].timestamp > Keep

(***************************************************************************)
(* The real-time monitor, monitor.py.                                      *)
(* Invocation 0 of process_latest is the startup call of main, which       *)
(* returns before observer.start(); the others are made by on_created and  *)
(* on_modified and may overlap, as when events reach the handler from      *)
(* more than one thread.  pc[t] is the position of invocation t;           *)
(* `interactions` is what load_all finds in the data directory.            *)
(***************************************************************************)
MaxInvocations == 2

Invocations == 0..MaxInvocations

MonitorLoads ==
    {<<>>,
     <<LoggedEmail("e1", "A", At(PeriodStart, 0), Text(500, {}))>>,
     <<AudioCall("M1", "A", At(PeriodStart, 1), "M1_topic_A.mp3"),
       LoggedEmail("e1", "A", At(PeriodStart, 0), Text(500, {}))>>}

\* what no step of the monitor changes
monitor_fixed == <<reordered, cases, cases2, start_date, end_date, in_range, out_of_range,
                   bundles, gated, verdict, audio_processor>>

NoLocals == [latest |-> NoneCase, data |-> <<>>, exit |-> "-"]

\* max(i.timestamp for i in c.interactions)
NewestTimestamp(c) ==
    CHOOSE ts \in {c.interactions[k].timestamp : k \in 1..Len(c.interactions)} :
        \A k \in 1..Len(c.interactions) : c.interactions[k].timestamp <= ts

\* max(cases, key=...): the first case holding the newest interaction
LatestCase(cs) ==
    LET first == CHOOSE k \in 1..Len(cs) :
                    /\ \A j \in 1..Len(cs) : NewestTimestamp(cs[j]) <= NewestTimestamp(cs[k])
                    /\ \A j \in 1..(k - 1) : NewestTimestamp(cs[j]) < NewestTimestamp(cs[k])
    IN  cs[first]

NeedsTranscription(c) ==
    \E k \in 1..Len(c.interactions) :
        /\ c.interactions[k].type = "PHONE"
        /\ c.interactions[k].file_path # "None"
        /\ BodyFalsy(c.interactions[k].body)

LeaveSkippingFinally(exit) == IF exit = "no_cases" THEN "returned" ELSE "finally"

\* where control goes when the try block is left: a return, the end of the
\* block and a caught exception all run the finally clause
Leave(exit) == "finally"

\* the positions between the guard and the finally clause
InsideGuard == {"scan", "evaluate", "read", "write"}

AtRest == {"idle", "dropped", "returned"}

InitMonitor ==
    /\ pc = [t \in Invocations |-> "idle"]
    /\ interactions \in MonitorLoads
    /\ audio_processor \in {"None", "gemini"}
    /\ processing = FALSE
    /\ dashboard \in {Absent, Unreadable}
    /\ arrivals = <<>>
    /\ local = [t \in Invocations |-> NoLocals]
    /\ reordered = <<>>
    /\ cases = <<>>
    /\ cases2 = <<>>
    /\ start_date = PeriodStart
    /\ end_date = PeriodEnd
    /\ in_range = <<>>
    /\ out_of_range = <<>>
    /\ bundles = <<>>
    /\ gated = {}
    /\ verdict = NoVerdict

\* main calls process_latest once, then starts the observer; after that a
\* file created or modified in the data directory makes on_created /
\* on_modified call it
Invoke(t) ==
    /\ pc[t] = "idle"
    /\ IF t = 0
       THEN UNCHANGED interactions
       ELSE /\ pc[0] \in {"dropped", "returned"}
            /\ interactions' \in {l \in MonitorLoads : Len(l) >= Len(interactions)}
    /\ pc' = [pc EXCEPT ![t] = "guard"]
    /\ UNCHANGED <<processing, dashboard, arrivals, local>>
    /\ UNCHANGED monitor_fixed

\* if self.processing: return
Guard(t) ==
    /\ pc[t] = "guard"
    /\ pc' = [pc EXCEPT ![t] = IF processing THEN "dropped" ELSE "set"]
    /\ UNCHANGED <<interactions, processing, dashboard, arrivals, local>>
    /\ UNCHANGED monitor_fixed

\* self.processing = True
SetProcessing(t) ==
    /\ pc[t] = "set"
    /\ processing' = TRUE
    /\ pc' = [pc EXCEPT ![t] = "scan"]
    /\ UNCHANGED <<interactions, dashboard, arrivals, local>>
    /\ UNCHANGED monitor_fixed

\* sleep, load_all, link_cases, "if not cases: return", latest_case and the
\* transcription loop; without an API key audio_processor is None and the
\* call self.audio_processor.transcribe raises AttributeError
Scan(t) ==
    /\ pc[t] = "scan"
    /\ \/ /\ local' = [local EXCEPT ![t].exit = "error"]
          /\ pc' = [pc EXCEPT ![t] = Leave("error")]
       \/ /\ LinkCases(interactions) = <<>>
          /\ local' = [local EXCEPT ![t].exit = "no_cases"]
          /\ pc' = [pc EXCEPT ![t] = Leave("no_cases")]
       \/ /\ LinkCases(interactions) # <<>>
          /\ LET latest_case == LatestCase(LinkCases(interactions))
             IN  IF NeedsTranscription(latest_case) /\ audio_processor = "None"
                 THEN /\ local' = [local EXCEPT ![t].exit = "error"]
                      /\ pc' = [pc EXCEPT ![t] = Leave("error")]
                 ELSE /\ local' = [local EXCEPT ![t].latest =
                                      TranscribedCase(latest_case, [f \in AudioFiles |-> Text(600, {})])]
                      /\ pc' = [pc EXCEPT ![t] = "evaluate"]
    /\ UNCHANGED <<interactions, processing, dashboard, arrivals>>
    /\ UNCHANGED monitor_fixed

\* result = self.evaluator.evaluate_case(latest_case), which may raise
Evaluate(t) ==
    /\ pc[t] = "evaluate"
    /\ \/ /\ local' = [local EXCEPT ![t].exit = "error"]
          /\ pc' = [pc EXCEPT ![t] = Leave("error")]
       \/ /\ pc' = [pc EXCEPT ![t] = "read"]
          /\ UNCHANGED local
    /\ UNCHANGED <<interactions, processing, dashboard, arrivals>>
    /\ UNCHANGED monitor_fixed

\* update_dashboard_json, up to the end of the read
ReadDashboard(t) ==
    /\ pc[t] = "read"
    /\ local' = [local EXCEPT ![t].data = ReadData(dashboard)]
    /\ pc' = [pc EXCEPT ![t] = "write"]
    /\ UNCHANGED <<interactions, processing, dashboard, arrivals>>
    /\ UNCHANGED monitor_fixed

\* update_dashboard_json, from the stamp to the write: the file is written,
\* or the write raises after open(..., "w") has truncated the file
WriteDashboard(t) ==
    /\ pc[t] = "write"
    /\ LET result == Stamped(EvaluationOf(local[t].latest), Len(arrivals) + 1)
       IN  \/ /\ dashboard' = File(UpdatedData(local[t].data, result))
              /\ arrivals' = Append(arrivals, result)
              /\ local' = [local EXCEPT ![t].exit = "done"]
              /\ pc' = [pc EXCEPT ![t] = Leave("done")]
           \/ /\ dashboard' = Unreadable
              /\ arrivals' = <<>>
              /\ local' = [local EXCEPT ![t].exit = "error"]
              /\ pc' = [pc EXCEPT ![t] = Leave("error")]
    /\ UNCHANGED <<interactions, processing>>
    /\ UNCHANGED monitor_fixed

\* finally: self.processing = False; the invocation's locals are gone, the
\* way it left the try block is kept
Finally(t) ==
    /\ pc[t] = "finally"
    /\ processing' = FALSE
    /\ pc' = [pc EXCEPT ![t] = "returned"]
    /\ local' = [local EXCEPT ![t] = [NoLocals EXCEPT !.exit = local[t].exit]]
    /\ UNCHANGED <<interactions, dashboard, arrivals>>
    /\ UNCHANGED monitor_fixed

\* the steps of an invocation that has been made
Proceed(t) ==
    \/ Guard(t)
    \/ SetProcessing(t)
    \/ Scan(t)
    \/ Evaluate(t)
    \/ ReadDashboard(t)
    \/ WriteDashboard(t)
    \/ Finally(t)

NextMonitor == \E t \in Invocations : Invoke(t) \/ Proceed(t)

SpecMonitor == InitMonitor /\ [][NextMonitor]_vars

\* every call of process_latest runs on: the calls it makes return
SpecMonitorFair ==
    /\ InitMonitor
    /\ [][NextMonitor]_vars
    /\ \A t \in Invocations : WF_vars(Proceed(t))

\* C26: process_latest always releases its guard: whichever way an
\* invocation that set the flag leaves (no cases, a finished evaluation,
\* an exception), it returns with processing False, and processing is
\* False whenever no invocation is under way
C26_GuardReleased ==
    /\ []((\A t \in Invocations : pc[t] \in AtRest) => ~processing)
    /\ \A t \in Invocations :
          (pc[t] \in InsideGuard) ~> (pc[t] = "returned" /\ ~processing)

C26_Witness ==
    /\ \A t \in Invocations : pc[t] = "returned"
    /\ {local[t].exit : t \in Invocations} = {"no_cases", "error", "done"}
    /\ ~processing

====
